---- MODULE Spec2Model ----
(***************************************************************************)
(* Model of arch/arm/src/s32k1xx/s32k1xx_progmem.c: the S32K1xx data-flash *)
(* (FTFC) program-memory driver.  The driver's functions are modelled at   *)
(* the granularity of single register accesses; the FTFC controller is the *)
(* environment.  The geometry is scaled down (the header that sets it is   *)
(* not part of the sources at hand); addresses keep their real values.     *)
(***************************************************************************)
EXTENDS Integers, Sequences, FiniteSets, TLC

(***************************************************************************)
(* Bounds of the model.                                                    *)
(***************************************************************************)
MaxCalls == 2          \* driver calls made in one behaviour
MaxChunks == 2         \* largest write, in write units
SlackIndex == 1        \* page / block indices tried beyond the last valid one
SlackAddr == 8         \* addresses tried beyond the end of the flash region
LiveCalls == 1         \* calls made where termination is checked
ConcCalls == 2         \* calls made by the two concurrent callers together
MaxSwitches == 2       \* context switches between the two callers

(***************************************************************************)
(* Geometry (s32k1xx_progmem.h), scaled down.                              *)
(***************************************************************************)
S32K1XX_PROGMEM_START_ADDR == 268435456          \* 0x10000000
S32K1XX_PROGMEM_DFLASH_WRITE_UNIT_SIZE == 2      \* 8 on the chip
S32K1XX_PROGMEM_PAGE_SIZE == 2                   \* 2048 on the chip
S32K1XX_PROGMEM_BLOCK_SECTOR_SIZE == 4           \* one erase sector
S32K1XX_PROGMEM_SECTOR_COUNT == 2
S32K1XX_PROGMEM_PAGE_COUNT ==
  (S32K1XX_PROGMEM_SECTOR_COUNT * S32K1XX_PROGMEM_BLOCK_SECTOR_SIZE)
     \div S32K1XX_PROGMEM_PAGE_SIZE
FlashSize == S32K1XX_PROGMEM_SECTOR_COUNT * S32K1XX_PROGMEM_BLOCK_SECTOR_SIZE
DFLASH_OFFSET == 8388608                         \* 0x800000, line 247 / 391

(***************************************************************************)
(* errno values and SIZE_MAX.  TLC integers are 32 bits signed, so         *)
(* SIZE_MAX = 0xffffffff is written as its two's complement reading.       *)
(***************************************************************************)
EPERM == 1
EIO == 5
EACCES == 13
EFAULT == 14
EINVAL == 22
EROFS == 30
SIZE_MAX == -1

(***************************************************************************)
(* FTFC registers (offsets from S32K1XX_FTFC_BASE), FSTAT bits, opcodes.   *)
(***************************************************************************)
S32K1XX_FTFC_FSTAT == 0
S32K1XX_FTFC_FCCOB3 == 4
S32K1XX_FTFC_FCCOB2 == 5
S32K1XX_FTFC_FCCOB1 == 6
S32K1XX_FTFC_FCCOB0 == 7
S32K1XX_FTFC_FCCOB6 == 9
S32K1XX_FTFC_FCCOB5 == 10
S32K1XX_FTFC_FCCOB4 == 11
PROGRAM_PAYLOAD_OFFSET == 8      \* S32K1XX_FTFC_BASE + j + 0x8, line 410
CHECK_PAYLOAD_OFFSET == 12       \* S32K1XX_FTFC_BASE + j + 0xc, line 446
MSCM_OCMDR == 1028               \* S32K1XX_MSCM_BASE + 0x404, line 468

FTTC_FSTAT_CCIF == 128
FTTC_FSTAT_RDCOLERR == 64
FTTC_FSTAT_ACCERR == 32
FTTC_FSTAT_FPVIOL == 16
FTTC_FSTAT_MGSTAT0 == 1

S32K1XX_FTFC_VERIFY_SECTION == 1
S32K1XX_FTFC_PROGRAM_CHECK == 2
S32K1XX_FTFC_PROGRAM_PHRASE == 7
S32K1XX_FTFC_ERASE_SECTOR == 9
S32K1XX_FTFC_PROGRAM_PARTITION == 128

(***************************************************************************)
(* Bit operations on bytes.                                                *)
(***************************************************************************)
RECURSIVE BitAnd(_, _)
BitAnd(a, b) ==
  IF a = 0 \/ b = 0 THEN 0
  ELSE (IF a % 2 = 1 /\ b % 2 = 1 THEN 1 ELSE 0) + 2 * BitAnd(a \div 2, b \div 2)

RECURSIVE BitOr(_, _)
BitOr(a, b) ==
  IF a = 0 THEN b
  ELSE IF b = 0 THEN a
  ELSE (IF a % 2 = 1 \/ b % 2 = 1 THEN 1 ELSE 0) + 2 * BitOr(a \div 2, b \div 2)

\* v with the bits of m cleared
BitClear(v, m) == v - BitAnd(v, m)

ERROR_CLEAR_MASK == BitOr(FTTC_FSTAT_FPVIOL, BitOr(FTTC_FSTAT_ACCERR, FTTC_FSTAT_RDCOLERR))
ERROR_MASK == BitOr(FTTC_FSTAT_MGSTAT0, ERROR_CLEAR_MASK)

(***************************************************************************)
(* union fccob_flash_addr: a 32-bit word and its four bytes (little        *)
(* endian: fccob3 is bits 7..0, fccob1 bits 23..16, pad bits 31..24).  The *)
(* word is held as its bytes; x may be negative (two's complement).        *)
(***************************************************************************)
fccob_flash_addr(x) ==
  [fccob3 |-> x % 256,
   fccob2 |-> (x \div 256) % 256,
   fccob1 |-> (x \div 65536) % 256,
   pad    |-> (x \div 16777216) % 256]

Low24(d) == d.fccob1 * 65536 + d.fccob2 * 256 + d.fccob3

\* variant: the address is not advanced
AddrPlus_NoAdvance(d, n) == d

\* dest.addr = dest.addr + n, modulo 2^32
AddrPlus(d, n) ==
  LET s == Low24(d) + n
  IN  [fccob3 |-> s % 256,
       fccob2 |-> (s \div 256) % 256,
       fccob1 |-> (s \div 65536) % 256,
       pad    |-> (d.pad + (s \div 16777216)) % 256]

(***************************************************************************)
(* Source buffer of the callers: the byte at each index (0x11, 0x12, ...). *)
(***************************************************************************)
Buffers == {"A"}
Src(buf, n) == 17 + n

(***************************************************************************)
(* Geometry functions: lines 130-219.                                      *)
(***************************************************************************)
up_progmem_neraseblocks == S32K1XX_PROGMEM_SECTOR_COUNT

up_progmem_isuniform == TRUE

up_progmem_pagesize(page) == S32K1XX_PROGMEM_PAGE_SIZE

up_progmem_erasesize(block) == S32K1XX_PROGMEM_BLOCK_SECTOR_SIZE

\* variant: the data flash offset is subtracted in place of the base address
StripBase_WrongBase(addr) ==
  IF addr >= S32K1XX_PROGMEM_START_ADDR
  THEN addr - DFLASH_OFFSET
  ELSE addr

\* lines 193-196 (also 372-375): an absolute address is made base-relative
StripBase(addr) ==
  IF addr >= S32K1XX_PROGMEM_START_ADDR
  THEN addr - S32K1XX_PROGMEM_START_ADDR
  ELSE addr

\* variant: the base address is not subtracted
up_progmem_getpage_NoStrip(addr) == addr \div S32K1XX_PROGMEM_PAGE_SIZE

up_progmem_getpage(addr) == StripBase(addr) \div S32K1XX_PROGMEM_PAGE_SIZE

\* variant: the address of the following page
up_progmem_getaddress_Next(page) ==
  S32K1XX_PROGMEM_START_ADDR + ((page + 1) * S32K1XX_PROGMEM_PAGE_SIZE)

up_progmem_getaddress(page) ==
  S32K1XX_PROGMEM_START_ADDR + (page * S32K1XX_PROGMEM_PAGE_SIZE)

(***************************************************************************)
(* State.                                                                  *)
(***************************************************************************)
VARIABLES
  flash,      \* data flash array, by offset from S32K1XX_PROGMEM_START_ADDR
  fstat,      \* FTFC FSTAT register
  fccob,      \* FTFC command/payload registers, by offset from FTFC base
  mscm,       \* words written to the MSCM OCMDR register
  verify,     \* whether the build defines FTFC_VERIFY_CHECK
  pc,         \* position of the caller inside the driver
  fn,         \* function being executed (or the last one, when pc = "idle")
  phase,      \* command the function is working on
  args,       \* arguments of that call
  dest,       \* union fccob_flash_addr dest
  src,        \* src - buf
  i,          \* chunk counter of up_progmem_write
  k,          \* next register write of the current command
  regval,     \* execute_ftfc_command: regval
  retval,     \* execute_ftfc_command: retval (the status last decoded)
  ret,        \* value returned by the last call
  cmds,       \* history: commands launched by the current call
  touched,    \* history: the current call accessed an FTFC/MSCM register
  trace,      \* history: register accesses of the current call, in order
  reads,      \* history: flash bytes read by the current call
  erasedOK,   \* history: blocks erased successfully and not written into since
  erasedAtCall, \* history: erasedOK when the current call was made
  ncalls,     \* number of calls made
  saved,      \* the frame of the caller that is not running
  cur,        \* the caller that is running
  nswitch,    \* number of context switches made
  budget,     \* number of calls the callers make
  gfn, garg, gmid, gret   \* geometry calls: function, input, intermediate, result

hw == <<flash, fstat, fccob, mscm>>
frame == <<pc, fn, phase, args, dest, src, i, k, regval, retval, ret>>
hist == <<cmds, touched, trace, reads, erasedOK, erasedAtCall, ncalls>>
sched == <<saved, cur, nswitch, budget>>
geom == <<gfn, garg, gmid, gret>>
vars == <<flash, fstat, fccob, mscm, verify, pc, fn, phase, args, dest, src, i, k,
          regval, retval, ret, cmds, touched, trace, reads, erasedOK, erasedAtCall,
          ncalls, saved, cur, nswitch, budget, gfn, garg, gmid, gret>>

Byte == 0..255
FlashOffsets == 0..(FlashSize - 1)
FccobOffsets ==
  S32K1XX_FTFC_FCCOB3..(CHECK_PAYLOAD_OFFSET + S32K1XX_PROGMEM_DFLASH_WRITE_UNIT_SIZE - 1)
Blocks == 0..(S32K1XX_PROGMEM_SECTOR_COUNT - 1)
Pages == 0..(S32K1XX_PROGMEM_PAGE_COUNT - 1)

HasBits(v, m) == BitAnd(v, m) # 0

UsedFlash == [a \in FlashOffsets |-> IF a % 3 = 1 THEN 90 ELSE 255]

NoArgs == [block |-> 0, page |-> 0, addr |-> 0, buf |-> "A", count |-> 0]
NoDest == fccob_flash_addr(0)

\* The frame of a caller that is in no call
IdleFrame ==
  [pc |-> "idle", fn |-> "none", phase |-> "none", args |-> NoArgs,
   dest |-> NoDest, src |-> 0, i |-> 0, k |-> 1, regval |-> 0, retval |-> 0,
   ret |-> 0, cmds |-> <<>>, touched |-> FALSE, trace |-> <<>>, reads |-> 0,
   erasedAtCall |-> {}]

\* One caller runs, the other one is in no call; b calls are made
Callers(b) ==
  /\ saved = IdleFrame
  /\ cur = 1
  /\ nswitch = 0
  /\ budget = b

InitDriver ==
  /\ flash = UsedFlash
  /\ fstat = FTTC_FSTAT_CCIF
  /\ fccob = [r \in FccobOffsets |-> 0]
  /\ mscm = <<>>
  /\ verify \in BOOLEAN
  /\ pc = "idle"
  /\ fn = "none"
  /\ phase = "none"
  /\ args = NoArgs
  /\ dest = NoDest
  /\ src = 0
  /\ i = 0
  /\ k = 1
  /\ regval = 0
  /\ retval = 0
  /\ ret = 0
  /\ cmds = <<>>
  /\ touched = FALSE
  /\ trace = <<>>
  /\ reads = 0
  /\ erasedOK = {}
  /\ erasedAtCall = {}
  /\ ncalls = 0

(***************************************************************************)
(* The FTFC controller (environment).                                      *)
(*                                                                         *)
(* FSTAT: CCIF set means idle.  Writing 1 to FPVIOL, ACCERR or RDCOLERR    *)
(* clears the flag; writing 1 to CCIF while CCIF is set launches the       *)
(* command held in the FCCOB registers (CCIF and MGSTAT0 read 0 until it   *)
(* completes).  FCCOB writes are ignored while a command is in flight.     *)
(***************************************************************************)
Launches(st, val) == HasBits(val, FTTC_FSTAT_CCIF) /\ HasBits(st, FTTC_FSTAT_CCIF)

FstatAfterWrite(st, val) ==
  LET cleared == BitClear(st, BitAnd(val, ERROR_CLEAR_MASK))
  IN  IF Launches(st, val)
      THEN BitClear(cleared, BitOr(FTTC_FSTAT_CCIF, FTTC_FSTAT_MGSTAT0))
      ELSE cleared

FccobAfterWrite(st, regs, reg, val) ==
  IF HasBits(st, FTTC_FSTAT_CCIF) THEN [regs EXCEPT ![reg] = val] ELSE regs

\* The command in the FCCOB registers
CommandOf(regs) ==
  [op   |-> regs[S32K1XX_FTFC_FCCOB0],
   addr |-> regs[S32K1XX_FTFC_FCCOB1] * 65536 + regs[S32K1XX_FTFC_FCCOB2] * 256
              + regs[S32K1XX_FTFC_FCCOB3],
   data |-> [j \in 0..(S32K1XX_PROGMEM_DFLASH_WRITE_UNIT_SIZE - 1) |->
               regs[PROGRAM_PAYLOAD_OFFSET + j]],
   expect |-> [j \in 0..(S32K1XX_PROGMEM_DFLASH_WRITE_UNIT_SIZE - 1) |->
               regs[CHECK_PAYLOAD_OFFSET + j]]]

\* Offset in the data flash array a controller address names, -1 if none
DflashOffset(a, len) ==
  IF /\ a >= DFLASH_OFFSET
     /\ a - DFLASH_OFFSET + len <= FlashSize
     /\ (a - DFLASH_OFFSET) % S32K1XX_PROGMEM_DFLASH_WRITE_UNIT_SIZE = 0
  THEN a - DFLASH_OFFSET
  ELSE -1

SectorOf(off) == off \div S32K1XX_PROGMEM_BLOCK_SECTOR_SIZE

ErrorFlags ==
  {FTTC_FSTAT_FPVIOL, FTTC_FSTAT_ACCERR, FTTC_FSTAT_RDCOLERR, FTTC_FSTAT_MGSTAT0}

Failures(fl) == {[flash |-> fl, flags |-> f] : f \in ErrorFlags}

\* Ways the command c can end on flash fl: the flash left and the flags raised
Outcomes(c, fl) ==
  LET unit == S32K1XX_PROGMEM_DFLASH_WRITE_UNIT_SIZE
      off  == DflashOffset(c.addr, IF c.op = S32K1XX_FTFC_ERASE_SECTOR
                                      \/ c.op = S32K1XX_FTFC_VERIFY_SECTION
                                   THEN 1 ELSE unit)
      bad  == {[flash |-> fl, flags |-> FTTC_FSTAT_ACCERR]}
      ok(f) == {[flash |-> f, flags |-> 0]}
  IN  IF c.op = S32K1XX_FTFC_PROGRAM_PARTITION
        THEN ok(fl) \cup bad
      ELSE IF off < 0 THEN bad
      ELSE IF c.op = S32K1XX_FTFC_ERASE_SECTOR
        THEN ok([a \in FlashOffsets |->
                   IF SectorOf(a) = SectorOf(off) THEN 255 ELSE fl[a]])
             \cup Failures(fl)
      ELSE IF c.op = S32K1XX_FTFC_PROGRAM_PHRASE
        THEN ok([a \in FlashOffsets |->
                   IF a >= off /\ a < off + unit
                   THEN BitAnd(fl[a], c.data[a - off]) ELSE fl[a]])
             \cup Failures(fl)
      ELSE IF c.op = S32K1XX_FTFC_PROGRAM_CHECK
        THEN IF \A j \in 0..(unit - 1) : fl[off + j] = c.expect[j]
             THEN ok(fl) \cup {[flash |-> fl, flags |-> FTTC_FSTAT_MGSTAT0]}
             ELSE {[flash |-> fl, flags |-> FTTC_FSTAT_MGSTAT0]}
      ELSE IF c.op = S32K1XX_FTFC_VERIFY_SECTION
        THEN IF \A a \in FlashOffsets : SectorOf(a) = SectorOf(off) => fl[a] = 255
             THEN ok(fl) \cup {[flash |-> fl, flags |-> FTTC_FSTAT_MGSTAT0]}
             ELSE {[flash |-> fl, flags |-> FTTC_FSTAT_MGSTAT0]}
      ELSE bad

\* The command in flight completes
HwComplete ==
  /\ ~HasBits(fstat, FTTC_FSTAT_CCIF)
  /\ \E o \in Outcomes(CommandOf(fccob), flash) :
       /\ flash' = o.flash
       /\ fstat' = BitOr(BitOr(fstat, FTTC_FSTAT_CCIF), o.flags)
  /\ UNCHANGED <<fccob, mscm, verify, sched, frame, hist, geom>>

(***************************************************************************)
(* Register writes of one command, in program order, as <<bus, reg, val>>. *)
(***************************************************************************)
ErrorClearWrite == <<"FTFC", S32K1XX_FTFC_FSTAT, ERROR_CLEAR_MASK>>

\* variant: the address bytes are loaded low byte first
AddressWrites_Swapped(d) ==
  << <<"FTFC", S32K1XX_FTFC_FCCOB1, d.fccob3>>,
     <<"FTFC", S32K1XX_FTFC_FCCOB2, d.fccob2>>,
     <<"FTFC", S32K1XX_FTFC_FCCOB3, d.fccob1>> >>

\* lines 259-261, 404-406, 437-439
AddressWrites(d) ==
  << <<"FTFC", S32K1XX_FTFC_FCCOB1, d.fccob1>>,
     <<"FTFC", S32K1XX_FTFC_FCCOB2, d.fccob2>>,
     <<"FTFC", S32K1XX_FTFC_FCCOB3, d.fccob3>> >>

\* variant: the payload is stored last byte first
PayloadWrites_Reversed(offset, buf, s) ==
  [j \in 1..S32K1XX_PROGMEM_DFLASH_WRITE_UNIT_SIZE |->
     <<"FTFC", offset + (S32K1XX_PROGMEM_DFLASH_WRITE_UNIT_SIZE - j), Src(buf, s + (j - 1))>>]

\* lines 408-412, 444-448: for (j = 0; j < unit; j++) *(base + j + offset) = src[j]
PayloadWrites(offset, buf, s) ==
  [j \in 1..S32K1XX_PROGMEM_DFLASH_WRITE_UNIT_SIZE |->
     <<"FTFC", offset + (j - 1), Src(buf, s + (j - 1))>>]

EraseSectorWrites(d) ==
  <<ErrorClearWrite, <<"FTFC", S32K1XX_FTFC_FCCOB0, S32K1XX_FTFC_ERASE_SECTOR>> >>
    \o AddressWrites(d)

VerifySectionWrites(d) ==
  <<ErrorClearWrite, <<"FTFC", S32K1XX_FTFC_FCCOB0, S32K1XX_FTFC_VERIFY_SECTION>> >>
    \o AddressWrites(d)
    \o << <<"FTFC", S32K1XX_FTFC_FCCOB4, 1>>,
          <<"FTFC", S32K1XX_FTFC_FCCOB5, 0>>,
          <<"FTFC", S32K1XX_FTFC_FCCOB6, 1>> >>

ProgramPhraseWrites(d, buf, s) ==
  <<ErrorClearWrite, <<"FTFC", S32K1XX_FTFC_FCCOB0, S32K1XX_FTFC_PROGRAM_PHRASE>> >>
    \o AddressWrites(d)
    \o PayloadWrites(PROGRAM_PAYLOAD_OFFSET, buf, s)

ProgramCheckWrites(d, buf, s) ==
  <<ErrorClearWrite, <<"FTFC", S32K1XX_FTFC_FCCOB0, S32K1XX_FTFC_PROGRAM_CHECK>> >>
    \o AddressWrites(d)
    \o << <<"FTFC", S32K1XX_FTFC_FCCOB4, 1>> >>
    \o PayloadWrites(CHECK_PAYLOAD_OFFSET, buf, s)

\* putreg32(0xc706b030, ...): the word is held as its two half-words
PartitionWrites ==
  << <<"MSCM", MSCM_OCMDR, <<50950, 45104>> >>,
     <<"FTFC", S32K1XX_FTFC_FCCOB0, S32K1XX_FTFC_PROGRAM_PARTITION>>,
     <<"FTFC", S32K1XX_FTFC_FCCOB1, 0>>,
     <<"FTFC", S32K1XX_FTFC_FCCOB2, 0>>,
     <<"FTFC", S32K1XX_FTFC_FCCOB3, 0>>,
     <<"FTFC", S32K1XX_FTFC_FCCOB4, 15>>,
     <<"FTFC", S32K1XX_FTFC_FCCOB5, 0>> >>

RegWrites ==
  CASE phase = "erase"   -> EraseSectorWrites(dest)
    [] phase = "everify" -> VerifySectionWrites(dest)
    [] phase = "program" -> ProgramPhraseWrites(dest, args.buf, src)
    [] phase = "check"   -> ProgramCheckWrites(dest, args.buf, src)
    [] phase = "init"    -> PartitionWrites
    [] OTHER             -> <<>>

(***************************************************************************)
(* Decisions of the code.                                                  *)
(***************************************************************************)
\* variant: the block index is left out of the target address
EraseDest_NoBlock(block) ==
  fccob_flash_addr(DFLASH_OFFSET - S32K1XX_PROGMEM_START_ADDR)

\* lines 247-248
EraseDest(block) ==
  fccob_flash_addr((block * S32K1XX_PROGMEM_BLOCK_SECTOR_SIZE) + DFLASH_OFFSET
                     - S32K1XX_PROGMEM_START_ADDR)

\* lines 372-375, 391
WriteDest(addr) == fccob_flash_addr(StripBase(addr) + DFLASH_OFFSET)

\* variant: the verify pass goes on from where the program pass ended
VerifyDest_NoReset(addr, d) == d

\* line 426: the verify pass starts again at the first chunk
VerifyDest(addr, d) == WriteDest(addr)

\* variant: the alignment test is left out
CountIsAligned_Always(count) == TRUE

\* line 377
CountIsAligned(count) == count % S32K1XX_PROGMEM_DFLASH_WRITE_UNIT_SIZE = 0

\* line 393 / 428
ChunkCount(count) == count \div S32K1XX_PROGMEM_DFLASH_WRITE_UNIT_SIZE

\* variant: FPVIOL is left out of the mask
StatusFailed_NoFpviol(st) ==
  HasBits(st, BitOr(FTTC_FSTAT_MGSTAT0, BitOr(FTTC_FSTAT_ACCERR, FTTC_FSTAT_RDCOLERR)))

\* lines 263-264, 284-285, 414-415, 450-451
StatusFailed(st) == HasBits(st, ERROR_MASK)

\* line 266 / 287
EraseFailure(st) == -EIO

\* line 417
ProgramFailure(st) == -EIO

\* variant: a failed check is reported like a failed program command
CheckFailure_EIO(count) == -EIO

\* line 453
CheckFailure(count) == count

\* variant: the bound is off by one
PageIsInvalid_OffByOne(page) == page >= S32K1XX_PROGMEM_PAGE_COUNT - 1

\* line 317
PageIsInvalid(page) == page >= S32K1XX_PROGMEM_PAGE_COUNT

\* lines 324-330: the index at which the scan of the page stops
RECURSIVE ScanStop(_, _, _)
ScanStop(fl, p, n) ==
  IF n < S32K1XX_PROGMEM_PAGE_SIZE /\ fl[p - S32K1XX_PROGMEM_START_ADDR + n] = 255
  THEN ScanStop(fl, p, n + 1)
  ELSE n

\* variant: the index of the first byte that is not erased is returned
ScanResult_Index(n) == n

\* line 332
ScanResult(n) == S32K1XX_PROGMEM_PAGE_SIZE - n

\* lines 322-332, for a valid page
PageScan(fl, page) == ScanResult(ScanStop(fl, up_progmem_getaddress(page), 0))

\* bytes the scan of lines 324-330 reads
ScanReads(n) == IF n < S32K1XX_PROGMEM_PAGE_SIZE THEN n + 1 ELSE n

(***************************************************************************)
(* Calls.                                                                  *)
(***************************************************************************)
Return(v) ==
  /\ pc' = "idle"
  /\ ret' = v
  /\ phase' = "none"
  /\ dest' = NoDest
  /\ src' = 0
  /\ i' = 0
  /\ k' = 1
  /\ regval' = 0

\* variant: a function is entered only while the other caller is in none
Enter_Locked(f, a) ==
  /\ pc = "idle"
  /\ saved.pc = "idle"
  /\ ncalls < budget
  /\ ncalls' = ncalls + 1
  /\ fn' = f
  /\ args' = a
  /\ cmds' = <<>>
  /\ touched' = FALSE
  /\ trace' = <<>>
  /\ retval' = 0
  /\ erasedAtCall' = erasedOK

\* entry of a function: nothing is waited for or taken
Enter(f, a) ==
  /\ pc = "idle"
  /\ ncalls < budget
  /\ ncalls' = ncalls + 1
  /\ fn' = f
  /\ args' = a
  /\ cmds' = <<>>
  /\ touched' = FALSE
  /\ trace' = <<>>
  /\ retval' = 0
  /\ erasedAtCall' = erasedOK

BlocksOfRange(off, count) ==
  {b \in Blocks : \E a \in off..(off + count - 1) : SectorOf(a) = b}

\* up_progmem_eraseblock, lines 243-250
Call_eraseblock(block) ==
  /\ Enter("erase", [NoArgs EXCEPT !.block = block])
  /\ dest' = EraseDest(block)
  /\ phase' = "erase"
  /\ pc' = "wait"
  /\ reads' = 0
  /\ UNCHANGED <<hw, verify, sched, src, i, k, regval, ret, erasedOK, geom>>

\* up_progmem_write, lines 364-391
Call_write(addr, buf, count) ==
  /\ Enter("write", [NoArgs EXCEPT !.addr = addr, !.buf = buf, !.count = count])
  /\ IF ~CountIsAligned(count)
     THEN /\ Return(-EINVAL)
          /\ UNCHANGED erasedOK
     ELSE /\ dest' = WriteDest(addr)
          /\ src' = 0
          /\ i' = 0
          /\ phase' = "program"
          /\ pc' = "loop"
          /\ erasedOK' = erasedOK \ BlocksOfRange(StripBase(addr), count)
          /\ UNCHANGED <<k, regval, ret>>
  /\ reads' = 0
  /\ UNCHANGED <<hw, verify, sched, geom>>

\* up_progmem_ispageerased, lines 312-333
Call_ispageerased(page) ==
  /\ Enter("ispageerased", [NoArgs EXCEPT !.page = page])
  /\ IF PageIsInvalid(page)
     THEN Return(-EFAULT) /\ reads' = 0
     ELSE LET n == ScanStop(flash, up_progmem_getaddress(page), 0)
          IN  Return(ScanResult(n)) /\ reads' = ScanReads(n)
  /\ UNCHANGED <<hw, verify, sched, erasedOK, geom>>

\* s32k1xx_progmem_init, line 464
Call_init ==
  /\ Enter("init", NoArgs)
  /\ phase' = "init"
  /\ pc' = "regs"
  /\ reads' = 0
  /\ UNCHANGED <<hw, verify, sched, dest, src, i, k, regval, ret, erasedOK, geom>>

(***************************************************************************)
(* Steps inside a call.                                                    *)
(***************************************************************************)
\* Register reads in the trace of a call: the FSTAT read that leaves the
\* loop of wait_ftfc_ready (line 88), and the FSTAT reads of
\* execute_ftfc_command (lines 101 and 107)
ReadyPoll == <<"poll", S32K1XX_FTFC_FSTAT, 0>>
StatusRead == <<"rd", S32K1XX_FTFC_FSTAT, 0>>

\* variant: the loop gives up although CCIF reads 0
wait_ftfc_ready_Timeout ==
  /\ pc \in {"wait", "x_wait"}
  /\ touched' = TRUE
  /\ pc' = IF pc = "wait" THEN "regs" ELSE "x_stat"
  /\ trace' = Append(trace, ReadyPoll)
  /\ UNCHANGED <<hw, verify, sched, fn, phase, args, dest, src, i, k, regval,
                 retval, ret, cmds, reads, erasedOK, erasedAtCall, ncalls, geom>>

\* variant: the loop test has the wrong sense and is left when CCIF reads 0
wait_ftfc_ready_Inverted ==
  /\ pc \in {"wait", "x_wait"}
  /\ touched' = TRUE
  /\ pc' = IF HasBits(fstat, FTTC_FSTAT_CCIF) THEN pc
           ELSE IF pc = "wait" THEN "regs" ELSE "x_stat"
  /\ trace' = IF HasBits(fstat, FTTC_FSTAT_CCIF) THEN trace
              ELSE Append(trace, ReadyPoll)
  /\ UNCHANGED <<hw, verify, sched, fn, phase, args, dest, src, i, k, regval,
                 retval, ret, cmds, reads, erasedOK, erasedAtCall, ncalls, geom>>

\* wait_ftfc_ready, lines 86-92: one poll of FSTAT; the loop is left when
\* CCIF reads 1 (line 250 etc. continue with the register writes, line 105
\* with the status read)
wait_ftfc_ready ==
  /\ pc \in {"wait", "x_wait"}
  /\ touched' = TRUE
  /\ pc' = IF ~HasBits(fstat, FTTC_FSTAT_CCIF) THEN pc
           ELSE IF pc = "wait" THEN "regs" ELSE "x_stat"
  /\ trace' = IF ~HasBits(fstat, FTTC_FSTAT_CCIF) THEN trace
              ELSE Append(trace, ReadyPoll)
  /\ UNCHANGED <<hw, verify, sched, fn, phase, args, dest, src, i, k, regval,
                 retval, ret, cmds, reads, erasedOK, erasedAtCall, ncalls, geom>>

\* the next putreg8 / putreg32 / payload store of the current command
PutReg ==
  /\ pc = "regs"
  /\ LET w == RegWrites[k]
     IN  /\ IF w[1] = "MSCM"
            THEN /\ mscm' = Append(mscm, w[3])
                 /\ UNCHANGED <<fstat, fccob>>
            ELSE IF w[2] = S32K1XX_FTFC_FSTAT
            THEN /\ fstat' = FstatAfterWrite(fstat, w[3])
                 /\ UNCHANGED <<fccob, mscm>>
            ELSE /\ fccob' = FccobAfterWrite(fstat, fccob, w[2], w[3])
                 /\ UNCHANGED <<fstat, mscm>>
  /\ touched' = TRUE
  /\ trace' = Append(trace, RegWrites[k])
  /\ IF k < Len(RegWrites)
     THEN k' = k + 1 /\ pc' = pc
     ELSE k' = 1 /\ pc' = "x_rd"
  /\ UNCHANGED <<flash, verify, sched, fn, phase, args, dest, src, i, regval,
                 retval, ret, cmds, reads, erasedOK, erasedAtCall, ncalls, geom>>

\* execute_ftfc_command, lines 101-102
ExecRead ==
  /\ pc = "x_rd"
  /\ regval' = BitOr(fstat, FTTC_FSTAT_CCIF)
  /\ touched' = TRUE
  /\ trace' = Append(trace, StatusRead)
  /\ pc' = "x_launch"
  /\ UNCHANGED <<hw, verify, sched, fn, phase, args, dest, src, i, k, retval, ret,
                 cmds, reads, erasedOK, erasedAtCall, ncalls, geom>>

\* execute_ftfc_command, line 103
ExecLaunch ==
  /\ pc = "x_launch"
  /\ fstat' = FstatAfterWrite(fstat, regval)
  /\ cmds' = IF Launches(fstat, regval) THEN Append(cmds, CommandOf(fccob)) ELSE cmds
  /\ touched' = TRUE
  /\ trace' = Append(trace, <<"FTFC", S32K1XX_FTFC_FSTAT, regval>>)
  /\ pc' = "x_wait"
  /\ UNCHANGED <<flash, fccob, mscm, verify, sched, fn, phase, args, dest, src, i, k,
                 regval, retval, ret, reads, erasedOK, erasedAtCall, ncalls, geom>>

\* execute_ftfc_command, lines 107-115
ExecStatus ==
  /\ pc = "x_stat"
  /\ retval' = fstat
  /\ touched' = TRUE
  /\ trace' = Append(trace, StatusRead)
  /\ pc' = "chk"
  /\ UNCHANGED <<hw, verify, sched, fn, phase, args, dest, src, i, k, regval, ret,
                 cmds, reads, erasedOK, erasedAtCall, ncalls, geom>>

\* up_progmem_eraseblock, lines 263-291
EraseCheck ==
  /\ pc = "chk"
  /\ phase \in {"erase", "everify"}
  /\ IF StatusFailed(retval)
     THEN Return(EraseFailure(retval)) /\ UNCHANGED erasedOK
     ELSE IF phase = "erase" /\ verify
     THEN /\ phase' = "everify"
          /\ pc' = "wait"
          /\ UNCHANGED <<dest, src, i, k, regval, ret, erasedOK>>
     ELSE /\ Return(S32K1XX_PROGMEM_BLOCK_SECTOR_SIZE)
          /\ erasedOK' = erasedOK \cup ({args.block} \cap Blocks)
  /\ UNCHANGED <<hw, verify, sched, fn, args, retval, cmds, touched, trace, reads,
                 erasedAtCall, ncalls, geom>>

\* up_progmem_write, lines 414-422 and 450-458
WriteCheck ==
  /\ pc = "chk"
  /\ phase \in {"program", "check"}
  /\ IF StatusFailed(retval)
     THEN Return(IF phase = "program" THEN ProgramFailure(retval)
                 ELSE CheckFailure(args.count))
     ELSE /\ dest' = AddrPlus(dest, S32K1XX_PROGMEM_DFLASH_WRITE_UNIT_SIZE)
          /\ src' = src + S32K1XX_PROGMEM_DFLASH_WRITE_UNIT_SIZE
          /\ i' = i + 1
          /\ pc' = "loop"
          /\ UNCHANGED <<phase, k, regval, ret>>
  /\ UNCHANGED <<hw, verify, sched, fn, args, retval, hist, geom>>

\* up_progmem_write, loop tests of lines 393 and 428, lines 424-426, 461
WriteLoop ==
  /\ pc = "loop"
  /\ IF i < ChunkCount(args.count)
     THEN /\ pc' = "wait"
          /\ UNCHANGED <<phase, dest, src, i, k, regval, ret>>
     ELSE IF phase = "program" /\ verify
     THEN /\ phase' = "check"
          /\ src' = 0
          /\ dest' = VerifyDest(args.addr, dest)
          /\ i' = 0
          /\ pc' = "loop"
          /\ UNCHANGED <<k, regval, ret>>
     ELSE Return(args.count)
  /\ UNCHANGED <<hw, verify, sched, fn, args, retval, hist, geom>>

\* s32k1xx_progmem_init, lines 480-481: the status is dropped
InitReturn ==
  /\ pc = "chk"
  /\ phase = "init"
  /\ Return(0)
  /\ UNCHANGED <<hw, verify, sched, fn, args, retval, hist, geom>>

(***************************************************************************)
(* Inputs of the calls.                                                    *)
(***************************************************************************)
BlockInputs == 0..(S32K1XX_PROGMEM_SECTOR_COUNT - 1 + SlackIndex)
PageInputs == 0..(S32K1XX_PROGMEM_PAGE_COUNT - 1 + SlackIndex)
\* the start of every block, and the first offset past the region
WriteOffsets == {b * S32K1XX_PROGMEM_BLOCK_SECTOR_SIZE : b \in Blocks} \cup {FlashSize}
WriteAddrs == WriteOffsets \cup {S32K1XX_PROGMEM_START_ADDR + o : o \in WriteOffsets}
WriteCounts == 0..(MaxChunks * S32K1XX_PROGMEM_DFLASH_WRITE_UNIT_SIZE)

NoGeom == gfn = "none" /\ garg = 0 /\ gmid = 0 /\ gret = 0

Init == InitDriver /\ NoGeom /\ Callers(MaxCalls)

Next ==
  \/ \E block \in BlockInputs : Call_eraseblock(block)
  \/ \E addr \in WriteAddrs, buf \in Buffers, count \in WriteCounts :
       Call_write(addr, buf, count)
  \/ \E page \in PageInputs : Call_ispageerased(page)
  \/ Call_init
  \/ wait_ftfc_ready
  \/ PutReg
  \/ ExecRead
  \/ ExecLaunch
  \/ ExecStatus
  \/ EraseCheck
  \/ WriteCheck
  \/ WriteLoop
  \/ InitReturn
  \/ HwComplete

Spec == Init /\ [][Next]_vars

(***************************************************************************)
(* Termination: the CPU keeps running the caller, and the controller ends  *)
(* every command it was given.                                             *)
(***************************************************************************)
CallerStep ==
  \/ wait_ftfc_ready
  \/ PutReg
  \/ ExecRead
  \/ ExecLaunch
  \/ ExecStatus
  \/ EraseCheck
  \/ WriteCheck
  \/ WriteLoop
  \/ InitReturn

InitLive == InitDriver /\ NoGeom /\ Callers(LiveCalls)

SpecLive ==
  InitLive /\ [][Next]_vars /\ WF_vars(CallerStep) /\ WF_vars(HwComplete)

(***************************************************************************)
(* Two callers.  The functions take no lock (there is none in the file),   *)
(* so the scheduler may suspend the running caller between any two of its  *)
(* register accesses and run the other one, whose locals are its own.      *)
(***************************************************************************)
Switch ==
  /\ nswitch < MaxSwitches
  /\ pc # "idle" \/ saved.pc # "idle"
  /\ nswitch' = nswitch + 1
  /\ cur' = 3 - cur
  /\ saved' = [pc |-> pc, fn |-> fn, phase |-> phase, args |-> args,
               dest |-> dest, src |-> src, i |-> i, k |-> k, regval |-> regval,
               retval |-> retval, ret |-> ret, cmds |-> cmds,
               touched |-> touched, trace |-> trace, reads |-> reads,
               erasedAtCall |-> erasedAtCall]
  /\ pc' = saved.pc
  /\ fn' = saved.fn
  /\ phase' = saved.phase
  /\ args' = saved.args
  /\ dest' = saved.dest
  /\ src' = saved.src
  /\ i' = saved.i
  /\ k' = saved.k
  /\ regval' = saved.regval
  /\ retval' = saved.retval
  /\ ret' = saved.ret
  /\ cmds' = saved.cmds
  /\ touched' = saved.touched
  /\ trace' = saved.trace
  /\ reads' = saved.reads
  /\ erasedAtCall' = saved.erasedAtCall
  /\ UNCHANGED <<hw, verify, budget, erasedOK, ncalls, geom>>

InitConc == InitDriver /\ ~verify /\ NoGeom /\ Callers(ConcCalls)

\* the calls the two callers make: one write unit at the start of the
\* region, the erase of a block, the initialisation
ConcAddrs == {0}

NextConc ==
  \/ \E block \in Blocks : Call_eraseblock(block)
  \/ \E addr \in ConcAddrs, buf \in Buffers :
       Call_write(addr, buf, S32K1XX_PROGMEM_DFLASH_WRITE_UNIT_SIZE)
  \/ Call_init
  \/ CallerStep
  \/ HwComplete
  \/ Switch

SpecConc == InitConc /\ [][NextConc]_vars

(***************************************************************************)
(* The geometry functions on their own: an input is drawn, one function is *)
(* applied to it, and the other one may be applied to the result.          *)
(***************************************************************************)
AddrOffsets == 0..(FlashSize - 1 + SlackAddr)
AddrInputs == AddrOffsets \cup {S32K1XX_PROGMEM_START_ADDR + o : o \in AddrOffsets}
GeomPageInputs ==
  0..(S32K1XX_PROGMEM_PAGE_COUNT - 1 + (SlackAddr \div S32K1XX_PROGMEM_PAGE_SIZE))

InitGeom ==
  /\ InitDriver
  /\ Callers(MaxCalls)
  /\ ~verify
  /\ gfn = "none"
  /\ garg \in AddrInputs \cup GeomPageInputs
  /\ gmid = 0
  /\ gret = 0

Geom_getpage ==
  /\ gfn = "none"
  /\ garg \in AddrInputs
  /\ gfn' = "getpage"
  /\ gret' = up_progmem_getpage(garg)
  /\ UNCHANGED <<hw, verify, sched, frame, hist, garg, gmid>>

Geom_getaddress ==
  /\ gfn = "none"
  /\ garg \in GeomPageInputs
  /\ gfn' = "getaddress"
  /\ gret' = up_progmem_getaddress(garg)
  /\ UNCHANGED <<hw, verify, sched, frame, hist, garg, gmid>>

\* up_progmem_getaddress(up_progmem_getpage(garg))
Geom_getaddress_of_getpage ==
  /\ gfn = "getpage"
  /\ gfn' = "getpage;getaddress"
  /\ gmid' = gret
  /\ gret' = up_progmem_getaddress(gret)
  /\ UNCHANGED <<hw, verify, sched, frame, hist, garg>>

\* up_progmem_getpage(up_progmem_getaddress(garg))
Geom_getpage_of_getaddress ==
  /\ gfn = "getaddress"
  /\ gfn' = "getaddress;getpage"
  /\ gmid' = gret
  /\ gret' = up_progmem_getpage(gret)
  /\ UNCHANGED <<hw, verify, sched, frame, hist, garg>>

NextGeom ==
  \/ Geom_getpage
  \/ Geom_getaddress
  \/ Geom_getaddress_of_getpage
  \/ Geom_getpage_of_getaddress

SpecGeom == InitGeom /\ [][NextGeom]_vars

(***************************************************************************)
(* Properties.                                                             *)
(***************************************************************************)
Returned(f) == pc = "idle" /\ fn = f

LastCmd == cmds[Len(cmds)]

BlockBytes(b) == {a \in FlashOffsets : SectorOf(a) = b}

PagesOfBlock(b) ==
  {p \in Pages : \A n \in 0..(S32K1XX_PROGMEM_PAGE_SIZE - 1) :
                   SectorOf(p * S32K1XX_PROGMEM_PAGE_SIZE + n) = b}

\* C1: a up_progmem_write call whose count is not a multiple of the write
\* unit returns -EINVAL in the step that makes the call: no FTFC or MSCM
\* register is accessed and no flash byte, FSTAT or FCCOB value changes.
C1_MisalignedWriteRejected ==
  [][ (pc = "idle" /\ fn' = "write" /\ ncalls' = ncalls + 1
         /\ args'.count % S32K1XX_PROGMEM_DFLASH_WRITE_UNIT_SIZE # 0)
      => (pc' = "idle" /\ ret' = -EINVAL /\ ~touched' /\ cmds' = <<>>
            /\ flash' = flash /\ fstat' = fstat /\ fccob' = fccob /\ mscm' = mscm)
    ]_vars

C1_Witness ==
  /\ Returned("write")
  /\ args.count % S32K1XX_PROGMEM_DFLASH_WRITE_UNIT_SIZE # 0
  /\ args.addr >= S32K1XX_PROGMEM_START_ADDR
  /\ ret = -EINVAL
  /\ ncalls = MaxCalls

\* C2: a valid block whose up_progmem_eraseblock returned the block size
\* reads 0xFF in every byte, and up_progmem_ispageerased gives 0 for every
\* page inside it, as long as no up_progmem_write into the block was called.
C2_ErasedBlockReadsErased ==
  /\ (Returned("erase") /\ ret = S32K1XX_PROGMEM_BLOCK_SECTOR_SIZE
        /\ args.block \in Blocks) => args.block \in erasedOK
  /\ \A b \in erasedOK :
       /\ \A a \in BlockBytes(b) : flash[a] = 255
       /\ \A p \in PagesOfBlock(b) : PageScan(flash, p) = 0
  /\ (Returned("ispageerased") /\ args.page \in Pages
        /\ \E b \in erasedOK : args.page \in PagesOfBlock(b)) => ret = 0

C2_Witness ==
  /\ Returned("erase")
  /\ ret = S32K1XX_PROGMEM_BLOCK_SECTOR_SIZE
  /\ args.block = S32K1XX_PROGMEM_SECTOR_COUNT - 1
  /\ erasedOK = {args.block}
  /\ \E a \in FlashOffsets : flash[a] # 255

\* C3: a up_progmem_write of k write units (k * unit <= block size) at the
\* start of a block that had been erased successfully, returning its count,
\* leaves the first k * unit bytes of the block equal to the source buffer,
\* in order, and every later byte of the block 0xFF.
C3_EraseWriteRoundTrip ==
  \A b \in Blocks :
    (/\ Returned("write")
     /\ StripBase(args.addr) = b * S32K1XX_PROGMEM_BLOCK_SECTOR_SIZE
     /\ b \in erasedAtCall
     /\ args.count <= S32K1XX_PROGMEM_BLOCK_SECTOR_SIZE
     /\ ret = args.count)
    => \A a \in BlockBytes(b) :
         LET n == a - b * S32K1XX_PROGMEM_BLOCK_SECTOR_SIZE
         IN  flash[a] = IF n < args.count THEN Src(args.buf, n) ELSE 255

C3_Witness ==
  /\ Returned("write")
  /\ args.addr = S32K1XX_PROGMEM_START_ADDR + S32K1XX_PROGMEM_BLOCK_SECTOR_SIZE
  /\ 1 \in erasedAtCall
  /\ args.buf = "A"
  /\ args.count = S32K1XX_PROGMEM_BLOCK_SECTOR_SIZE
  /\ ret = args.count
  /\ flash[S32K1XX_PROGMEM_BLOCK_SECTOR_SIZE + 3] = Src("A", 3)

C5_InvalidPageRejected ==
  Returned("ispageerased") =>
    /\ args.page >= S32K1XX_PROGMEM_PAGE_COUNT => (ret = -EFAULT /\ reads = 0)
    /\ args.page < S32K1XX_PROGMEM_PAGE_COUNT => ret # -EFAULT

C5_Witness ==
  /\ Returned("ispageerased")
  /\ args.page = S32K1XX_PROGMEM_PAGE_COUNT
  /\ ret = -EFAULT
  /\ reads = 0

\* C6 (as claimed): for a valid page up_progmem_ispageerased returns the
\* number of bytes of the page that differ from 0xFF, 0 exactly when the
\* whole page is erased.
NotErasedBytes(fl, page) ==
  Cardinality({n \in 0..(S32K1XX_PROGMEM_PAGE_SIZE - 1) :
                 fl[page * S32K1XX_PROGMEM_PAGE_SIZE + n] # 255})

C6_ReturnsNotErasedCount ==
  (Returned("ispageerased") /\ args.page \in Pages) =>
    /\ ret = NotErasedBytes(flash, args.page)
    /\ (ret = 0) <=> (NotErasedBytes(flash, args.page) = 0)

\* C7: up_progmem_getpage(up_progmem_getaddress(p)) = p for every valid page.
C7_PageOfAddressOfPage ==
  (gfn = "getaddress;getpage" /\ garg \in Pages) => gret = garg

C7_Witness ==
  /\ gfn = "getaddress;getpage"
  /\ garg = S32K1XX_PROGMEM_PAGE_COUNT - 1
  /\ gmid = up_progmem_getaddress(garg)
  /\ gret = garg

\* C8 (as claimed): for every address a of the flash region, absolute or
\* base-relative, up_progmem_getaddress(up_progmem_getpage(a)) is
\* page-aligned and <= a.
InRegion(a) == StripBase(a) < FlashSize

C8_AddressOfPageBelow ==
  (gfn = "getpage;getaddress" /\ InRegion(garg)) =>
    /\ gret % S32K1XX_PROGMEM_PAGE_SIZE = 0
    /\ gret <= garg

\* C8 (amended): the result is page-aligned; it is <= a for an absolute
\* a, and <= base address + a for a base-relative a.
C8_AddressOfPageBelowAbsolute ==
  (gfn = "getpage;getaddress" /\ InRegion(garg)) =>
    /\ gret % S32K1XX_PROGMEM_PAGE_SIZE = 0
    /\ garg >= S32K1XX_PROGMEM_START_ADDR => gret <= garg
    /\ garg < S32K1XX_PROGMEM_START_ADDR => gret <= S32K1XX_PROGMEM_START_ADDR + garg

C8_Witness ==
  /\ gfn = "getpage;getaddress"
  /\ garg = S32K1XX_PROGMEM_PAGE_SIZE + 1
  /\ gret = S32K1XX_PROGMEM_START_ADDR + S32K1XX_PROGMEM_PAGE_SIZE

\* C9 (as claimed): a failed erase or write reports -EROFS for a protection
\* violation, -EACCES or -EPERM for an access error, -EIO otherwise.
C9_DistinctErrorCodes ==
  (pc = "idle" /\ fn \in {"erase", "write"} /\ cmds # <<>>
     /\ LastCmd.op \in {S32K1XX_FTFC_ERASE_SECTOR, S32K1XX_FTFC_PROGRAM_PHRASE}
     /\ HasBits(retval, ERROR_MASK))
  => IF HasBits(retval, FTTC_FSTAT_FPVIOL) THEN ret = -EROFS
     ELSE IF HasBits(retval, FTTC_FSTAT_ACCERR) THEN ret \in {-EACCES, -EPERM}
     ELSE ret = -EIO

\* C10 (as claimed): up_progmem_getpage returns -EFAULT for an address
\* outside the flash region, up_progmem_getaddress returns SIZE_MAX for a
\* page index >= page count, and up_progmem_eraseblock returns -EFAULT,
\* launching no command, for a block index >= erase block count.
C10_OutOfRangeRejected ==
  /\ (gfn = "getpage" /\ ~InRegion(garg)) => gret = -EFAULT
  /\ (gfn = "getaddress" /\ garg >= S32K1XX_PROGMEM_PAGE_COUNT) => gret = SIZE_MAX
  /\ (Returned("erase") /\ args.block >= S32K1XX_PROGMEM_SECTOR_COUNT)
        => (ret = -EFAULT /\ cmds = <<>>)

(***************************************************************************)
(* The register accesses of a call, read off its trace.                    *)
(***************************************************************************)
IsPoll(e) == e[1] = "poll"
IsRead(e) == e[1] = "rd"
IsWriteTo(e, reg) == e[1] = "FTFC" /\ e[2] = reg
IsErrorClear(e) ==
  IsWriteTo(e, S32K1XX_FTFC_FSTAT) /\ e[3] = ERROR_CLEAR_MASK
IsLaunchWrite(e) ==
  IsWriteTo(e, S32K1XX_FTFC_FSTAT) /\ HasBits(e[3], FTTC_FSTAT_CCIF)
IsPayloadWrite(e) ==
  /\ e[1] = "FTFC"
  /\ e[2] \notin {S32K1XX_FTFC_FSTAT, S32K1XX_FTFC_FCCOB0, S32K1XX_FTFC_FCCOB1,
                  S32K1XX_FTFC_FCCOB2, S32K1XX_FTFC_FCCOB3}

LaunchPositions(t) == {p \in 1..Len(t) : IsLaunchWrite(t[p])}

\* Where the accesses of the command launched at position p begin: after the
\* completion poll and the status read of the launch before it
SegmentStart(t, p) ==
  LET before == {q \in LaunchPositions(t) : q < p}
  IN  IF before = {} THEN 1
      ELSE (CHOOSE q \in before : \A r \in before : r <= q) + 3

\* The command launched at position p went through the protocol
ProtocolAt(t, p) ==
  LET s == SegmentStart(t, p)
  IN  /\ p >= s + 7
      /\ IsPoll(t[s])
      /\ IsErrorClear(t[s + 1])
      /\ IsWriteTo(t[s + 2], S32K1XX_FTFC_FCCOB0)
      /\ IsWriteTo(t[s + 3], S32K1XX_FTFC_FCCOB1)
      /\ IsWriteTo(t[s + 4], S32K1XX_FTFC_FCCOB2)
      /\ IsWriteTo(t[s + 5], S32K1XX_FTFC_FCCOB3)
      /\ \A q \in (s + 6)..(p - 2) : IsPayloadWrite(t[q])
      /\ IsRead(t[p - 1])
      /\ Len(t) > p => IsPoll(t[p + 1])
      /\ Len(t) > p + 1 => IsRead(t[p + 2])

\* The commands of up_progmem_eraseblock and up_progmem_write go through
\* the protocol
ProtocolOutsideInit ==
  fn # "init" => \A p \in LaunchPositions(trace) : ProtocolAt(trace, p)

ProtocolOutsideInit_Witness ==
  /\ Returned("write")
  /\ verify
  /\ Cardinality(LaunchPositions(trace)) = 4

\* C11 (as claimed): every command an operation launches, the program
\* partition command of s32k1xx_progmem_init included, goes through the
\* steps in this order: FSTAT is polled until CCIF is set, the error flags
\* are written to FSTAT, the opcode and the address are written, the payload
\* is written, CCIF is written, FSTAT is polled until CCIF is set, FSTAT is
\* read once; no launch comes before the ready-wait and the error-clear of
\* its command.
C11_EveryCommandFollowsProtocol ==
  \A p \in LaunchPositions(trace) : ProtocolAt(trace, p)

\* The n-th launch of the trace t, counted from 1
NthLaunch(t, n) ==
  CHOOSE p \in LaunchPositions(t) :
    Cardinality({q \in LaunchPositions(t) : q <= p}) = n

PhraseCmds == SelectSeq(cmds, LAMBDA c : c.op = S32K1XX_FTFC_PROGRAM_PHRASE)

\* A up_progmem_write call of a multiple of the write unit has returned and
\* none of its commands ended with an error flag
WriteWithoutFailure ==
  /\ Returned("write")
  /\ args.count % S32K1XX_PROGMEM_DFLASH_WRITE_UNIT_SIZE = 0
  /\ ret # -EIO
  /\ ~HasBits(retval, ERROR_MASK)

\* C12: a up_progmem_write call of count = k write units none of whose
\* commands fails launches exactly k program-phrase commands and returns
\* count (none and 0 for k = 0); the i-th of them (from 0) targets the
\* controller address (base-relative addr) + 0x800000 + i * unit and carries
\* the source bytes [i * unit, (i + 1) * unit) in order, stored after the
\* address bytes and before the launch.
C12_OneProgramPhrasePerUnit ==
  WriteWithoutFailure =>
    LET unit == S32K1XX_PROGMEM_DFLASH_WRITE_UNIT_SIZE
        kk   == args.count \div unit
        off  == IF args.addr >= S32K1XX_PROGMEM_START_ADDR
                THEN args.addr - S32K1XX_PROGMEM_START_ADDR ELSE args.addr
    IN  /\ ret = args.count
        /\ Len(PhraseCmds) = kk
        /\ Len(cmds) >= kk
        /\ \A n \in 1..kk :
             LET p == NthLaunch(trace, n)
                 s == SegmentStart(trace, p)
             IN  /\ cmds[n].op = S32K1XX_FTFC_PROGRAM_PHRASE
                 /\ cmds[n].addr = off + 8388608 + (n - 1) * unit
                 /\ \A j \in 0..(unit - 1) :
                      cmds[n].data[j] = Src(args.buf, (n - 1) * unit + j)
                 /\ p = s + 7 + unit
                 /\ IsWriteTo(trace[s + 5], S32K1XX_FTFC_FCCOB3)
                 /\ \A j \in 0..(unit - 1) :
                      trace[s + 6 + j] =
                        <<"FTFC", PROGRAM_PAYLOAD_OFFSET + j,
                          Src(args.buf, (n - 1) * unit + j)>>

C12_Witness ==
  /\ WriteWithoutFailure
  /\ args.addr = S32K1XX_PROGMEM_START_ADDR + S32K1XX_PROGMEM_BLOCK_SECTOR_SIZE
  /\ args.count = 2 * S32K1XX_PROGMEM_DFLASH_WRITE_UNIT_SIZE
  /\ Len(PhraseCmds) = 2
  /\ flash[S32K1XX_PROGMEM_BLOCK_SECTOR_SIZE + 3] = BitAnd(255, Src(args.buf, 3))

\* C13: if the controller ends every command it was given (and the CPU keeps
\* running the caller), every call of up_progmem_eraseblock,
\* up_progmem_write and s32k1xx_progmem_init returns; and a caller that has
\* launched a command stays in the polling loop for as long as CCIF reads 0:
\* no step returns, gives a result or goes on while the command is in flight.
C13_ReturnsIffControllerCompletes ==
  /\ (pc # "idle" /\ fn \in {"erase", "write", "init"}) ~> (pc = "idle")
  /\ [](~HasBits(fstat, FTTC_FSTAT_CCIF) => pc = "x_wait")
  /\ [][ (~HasBits(fstat, FTTC_FSTAT_CCIF) /\ ~HasBits(fstat', FTTC_FSTAT_CCIF))
         => (pc' = pc /\ ret' = ret /\ retval' = retval /\ ncalls' = ncalls) ]_vars

C13_Witness ==
  /\ Returned("erase")
  /\ verify
  /\ Len(cmds) = 2
  /\ ret = S32K1XX_PROGMEM_BLOCK_SECTOR_SIZE

\* C14: the functions take no lock: while one caller is suspended anywhere
\* inside a call (between its ready-wait and its status read included), the
\* other caller can enter up_progmem_eraseblock, up_progmem_write and
\* s32k1xx_progmem_init.  C14_Witness is the corrupted command this allows.
C14_NoLockHeld ==
  (saved.pc # "idle" /\ pc = "idle" /\ ncalls < budget)
    => /\ ENABLED Call_init
       /\ \A block \in Blocks : ENABLED Call_eraseblock(block)
       /\ \A addr \in ConcAddrs, buf \in Buffers :
            ENABLED Call_write(addr, buf, S32K1XX_PROGMEM_DFLASH_WRITE_UNIT_SIZE)

\* up_progmem_eraseblock(1) was suspended after it had written FCCOB0, the
\* up_progmem_write of the other caller wrote its own opcode and was
\* suspended in turn: the erase call launched a program-phrase command at
\* the address of block 1, got the status of that command, and reports the
\* block as erased although it is not
C14_Witness ==
  /\ Returned("erase")
  /\ args.block = 1
  /\ saved.fn = "write"
  /\ saved.pc = "regs"
  /\ Len(cmds) = 1
  /\ cmds[1].op = S32K1XX_FTFC_PROGRAM_PHRASE
  /\ cmds[1].addr = 8388608 + S32K1XX_PROGMEM_BLOCK_SECTOR_SIZE
  /\ ret = S32K1XX_PROGMEM_BLOCK_SECTOR_SIZE
  /\ \E a \in BlockBytes(1) : flash[a] # 255

\* Base-relative offset and number of chunks of the current write call
WriteOff == StripBase(args.addr)
WriteChunks == args.count \div S32K1XX_PROGMEM_DFLASH_WRITE_UNIT_SIZE

\* C15 (as claimed): with FTFC_VERIFY_CHECK, up_progmem_write verifies chunk
\* by chunk: the program-check command of chunk i is launched after the
\* program-phrase command of chunk i and before the program-phrase command
\* of chunk i + 1.
C15_CheckBetweenPhrases ==
  (fn = "write" /\ verify) =>
    \A p \in 2..Len(cmds) :
      cmds[p].op = S32K1XX_FTFC_PROGRAM_PHRASE =>
        /\ cmds[p - 1].op = S32K1XX_FTFC_PROGRAM_CHECK
        /\ cmds[p - 1].addr + S32K1XX_PROGMEM_DFLASH_WRITE_UNIT_SIZE = cmds[p].addr

\* C15 (amended): with FTFC_VERIFY_CHECK, up_progmem_write verifies in a
\* second pass: the program-phrase commands of all k chunks are launched
\* first, in chunk order; the program-check commands follow, again from
\* chunk 0 in chunk order, each at the address of its chunk and with the
\* bytes of its chunk as the expected data.
C15_CheckPassAfterProgramPass ==
  (fn = "write" /\ verify) =>
    /\ Len(cmds) <= 2 * WriteChunks
    /\ \A p \in 1..Len(cmds) :
         LET unit  == S32K1XX_PROGMEM_DFLASH_WRITE_UNIT_SIZE
             chunk == IF p <= WriteChunks THEN p - 1 ELSE p - WriteChunks - 1
         IN  /\ cmds[p].op = IF p <= WriteChunks THEN S32K1XX_FTFC_PROGRAM_PHRASE
                             ELSE S32K1XX_FTFC_PROGRAM_CHECK
             /\ cmds[p].addr = WriteOff + 8388608 + chunk * unit
             /\ p > WriteChunks =>
                  \A j \in 0..(unit - 1) :
                    cmds[p].expect[j] = Src(args.buf, chunk * unit + j)

C15_Witness ==
  /\ Returned("write")
  /\ verify
  /\ WriteChunks = 2
  /\ Len(cmds) = 4
  /\ cmds[2].op = S32K1XX_FTFC_PROGRAM_PHRASE
  /\ cmds[3].op = S32K1XX_FTFC_PROGRAM_CHECK
  /\ ~HasBits(retval, ERROR_MASK)

C17_EraseAddressBytes ==
  /\ (fn = "erase" /\ Len(trace) >= 6) =>
       LET target == args.block * S32K1XX_PROGMEM_BLOCK_SECTOR_SIZE + 8388608
                       - S32K1XX_PROGMEM_START_ADDR
           low24  == target % 16777216
       IN  /\ trace[4] = <<"FTFC", S32K1XX_FTFC_FCCOB1, low24 \div 65536>>
           /\ trace[5] = <<"FTFC", S32K1XX_FTFC_FCCOB2, (low24 \div 256) % 256>>
           /\ trace[6] = <<"FTFC", S32K1XX_FTFC_FCCOB3, low24 % 256>>
           /\ \A p \in 1..Len(trace) :
                trace[p][1] = "FTFC" =>
                  trace[p][2] \in {S32K1XX_FTFC_FSTAT, S32K1XX_FTFC_FCCOB0,
                                   S32K1XX_FTFC_FCCOB1, S32K1XX_FTFC_FCCOB2,
                                   S32K1XX_FTFC_FCCOB3, S32K1XX_FTFC_FCCOB4,
                                   S32K1XX_FTFC_FCCOB5, S32K1XX_FTFC_FCCOB6}
           /\ \A p \in 1..Len(cmds) : cmds[p].addr = low24
  /\ (fn = "write" /\ cmds # <<>>) =>
       \A block \in BlockInputs :
         args.addr \in {block * S32K1XX_PROGMEM_BLOCK_SECTOR_SIZE,
                        S32K1XX_PROGMEM_START_ADDR
                          + block * S32K1XX_PROGMEM_BLOCK_SECTOR_SIZE}
           => cmds[1].addr =
                (block * S32K1XX_PROGMEM_BLOCK_SECTOR_SIZE + 8388608
                   - S32K1XX_PROGMEM_START_ADDR) % 16777216

C17_Witness ==
  /\ Returned("erase")
  /\ args.block = 1
  /\ Len(cmds) = 1
  /\ cmds[1].addr = 8388608 + S32K1XX_PROGMEM_BLOCK_SECTOR_SIZE
  /\ fccob[S32K1XX_FTFC_FCCOB1] = 128
  /\ fccob[S32K1XX_FTFC_FCCOB2] = 0
  /\ fccob[S32K1XX_FTFC_FCCOB3] = S32K1XX_PROGMEM_BLOCK_SECTOR_SIZE

\* Offsets within the page of the bytes that are not 0xFF
NotErasedOffsets(fl, page) ==
  {m \in 0..(S32K1XX_PROGMEM_PAGE_SIZE - 1) :
     fl[page * S32K1XX_PROGMEM_PAGE_SIZE + m] # 255}

IsCommandWrite(e) ==
  /\ e[1] = "FTFC"
  /\ e[2] = S32K1XX_FTFC_FSTAT => e[3] = ERROR_CLEAR_MASK

\* C19: with one caller making its calls one after the other from an idle
\* controller, no FCCOB register and no error-clear is written while a
\* command is in flight (CCIF reads 0), and every call that has returned,
\* with success or with -EIO, has left the controller idle (CCIF reads 1).
C19_IdleBetweenCalls ==
  /\ [][ (Len(trace') = Len(trace) + 1 /\ IsCommandWrite(trace'[Len(trace')]))
           => HasBits(fstat, FTTC_FSTAT_CCIF) ]_vars
  /\ [](pc = "idle" => HasBits(fstat, FTTC_FSTAT_CCIF))

C19_Witness ==
  /\ Returned("write")
  /\ ncalls = 2
  /\ ret = -EIO
  /\ Len(cmds) = 2
  /\ HasBits(fstat, FTTC_FSTAT_CCIF)
  /\ HasBits(fstat, FTTC_FSTAT_FPVIOL)

\* The register writes of a trace; the launch is taken as the write of CCIF
\* (the other bits written with it are the FSTAT value read just before)
NormalWrites(t) ==
  LET w == SelectSeq(t, LAMBDA e : e[1] = "FTFC")
  IN  [p \in 1..Len(w) |->
         IF IsLaunchWrite(w[p])
         THEN <<"FTFC", S32K1XX_FTFC_FSTAT, FTTC_FSTAT_CCIF>>
         ELSE w[p]]

\* The register writes of one command of a write at the base-relative
\* offset off: chunk c, opcode op
ExpectedChunk(off, buf, c, op) ==
  LET unit == S32K1XX_PROGMEM_DFLASH_WRITE_UNIT_SIZE
      a    == (off + 8388608 + c * unit) % 16777216
      at   == IF op = S32K1XX_FTFC_PROGRAM_PHRASE THEN PROGRAM_PAYLOAD_OFFSET
              ELSE CHECK_PAYLOAD_OFFSET
  IN  << <<"FTFC", S32K1XX_FTFC_FSTAT, 112>>,
         <<"FTFC", S32K1XX_FTFC_FCCOB0, op>>,
         <<"FTFC", S32K1XX_FTFC_FCCOB1, a \div 65536>>,
         <<"FTFC", S32K1XX_FTFC_FCCOB2, (a \div 256) % 256>>,
         <<"FTFC", S32K1XX_FTFC_FCCOB3, a % 256>> >>
      \o (IF op = S32K1XX_FTFC_PROGRAM_CHECK
          THEN << <<"FTFC", S32K1XX_FTFC_FCCOB4, 1>> >> ELSE << >>)
      \o [j \in 1..unit |-> <<"FTFC", at + j - 1, Src(buf, c * unit + j - 1)>>]
      \o << <<"FTFC", S32K1XX_FTFC_FSTAT, FTTC_FSTAT_CCIF>> >>

RECURSIVE ExpectedPass(_, _, _, _, _)
ExpectedPass(off, buf, chunks, op, c) ==
  IF c >= chunks THEN << >>
  ELSE ExpectedChunk(off, buf, c, op) \o ExpectedPass(off, buf, chunks, op, c + 1)

\* The register writes of a write call none of whose commands fails
ExpectedWrites(off, buf, count, v) ==
  LET chunks == count \div S32K1XX_PROGMEM_DFLASH_WRITE_UNIT_SIZE
  IN  IF count % S32K1XX_PROGMEM_DFLASH_WRITE_UNIT_SIZE # 0 THEN << >>
      ELSE ExpectedPass(off, buf, chunks, S32K1XX_FTFC_PROGRAM_PHRASE, 0)
           \o (IF v
               THEN ExpectedPass(off, buf, chunks, S32K1XX_FTFC_PROGRAM_CHECK, 0)
               ELSE << >>)

IsPrefix(a, b) == Len(a) <= Len(b) /\ \A p \in 1..Len(a) : a[p] = b[p]

\* C20: up_progmem_write(base address + off, buf, count) and
\* up_progmem_write(off, buf, count) behave alike.  The register writes, the
\* result and the bytes written depend on addr only through off: in either
\* form the register writes of the call are, as far as the controller's
\* answers let the call go, those determined by off, buf and count (same
\* opcodes, address bytes and payloads, in the same order), the result is
\* determined by count and the statuses decoded, and a write that succeeds
\* on erased blocks leaves buf at offsets off .. off + count - 1.
C20_AddressFormsAgree ==
  fn = "write" =>
    LET unit == S32K1XX_PROGMEM_DFLASH_WRITE_UNIT_SIZE
        off  == IF args.addr >= S32K1XX_PROGMEM_START_ADDR
                THEN args.addr - S32K1XX_PROGMEM_START_ADDR ELSE args.addr
        full == ExpectedWrites(off, args.buf, args.count, verify)
        failed == HasBits(retval, ERROR_MASK)
    IN  /\ IsPrefix(NormalWrites(trace), full)
        /\ pc = "idle" =>
             /\ ret = IF args.count % unit # 0 THEN -EINVAL
                      ELSE IF failed /\ LastCmd.op = S32K1XX_FTFC_PROGRAM_PHRASE
                      THEN -EIO
                      ELSE args.count
             /\ ~failed => NormalWrites(trace) = full
             /\ (~failed /\ ret = args.count
                   /\ \A n \in 0..(args.count - 1) : SectorOf(off + n) \in erasedAtCall)
                  => \A n \in 0..(args.count - 1) : flash[off + n] = Src(args.buf, n)

C20_Witness ==
  /\ Returned("write")
  /\ verify
  /\ args.addr = S32K1XX_PROGMEM_START_ADDR
  /\ args.count = 2 * S32K1XX_PROGMEM_DFLASH_WRITE_UNIT_SIZE
  /\ ret = args.count
  /\ ~HasBits(retval, ERROR_MASK)
  /\ Len(NormalWrites(trace)) = 4 * (6 + S32K1XX_PROGMEM_DFLASH_WRITE_UNIT_SIZE) + 2
  /\ flash[3] = Src(args.buf, 3)

====
